---------------------------- MODULE Spec2Model ----------------------------
(***************************************************************************)
(* A model of the reconciliation engine of gst-reconcile-wizard            *)
(* (utils/reconciliationUtils.ts: performReconciliation) and of the        *)
(* fuse.js index it drives.                                                *)
(*                                                                         *)
(* Conventions                                                             *)
(*  - A JavaScript string is a sequence of one-character strings.          *)
(*  - A JavaScript number is an integer count of hundredths (10009 is      *)
(*    100.09); the comparisons of the code are scaled accordingly.         *)
(*  - A cell value is a record [t, n, s]: its typeof tag, its number and   *)
(*    its string.  A field a row does not have reads as undefined.         *)
(*  - An object is [ref, row]: ref is its identity (Array.indexOf and      *)
(*    fuse.js compare objects by reference), row its fields.               *)
(*  - Sequences are 1-based; index 0 stands for JavaScript's -1.           *)
(*  - A similarity score is an integer count of ten-thousandths            *)
(*    (0..10000); Number.EPSILON, far below that resolution, counts as 1.  *)
(***************************************************************************)
EXTENDS Integers, Sequences, FiniteSets, TLC

VARIABLES
    gstr2bData,              \* the source dataset (argument; Index state)
    purchaseRegisterData,    \* the target dataset (argument; Index state)
    options,                 \* argument: matchingThreshold, keyFields, mappedFields
    common,                  \* result container
    moreInGstr2b,            \* result container (onlyInSource)
    lessInGstr2b,            \* result container (onlyInTarget)
    matchedPurchaseIndices,  \* Set<number> of consumed target indices
    pc,                      \* position in the function that is running
    i,                       \* index of the forEach that is running
    combinedData,            \* generateCommonEntriesSheet: the rows of the sheet
    gstr2bHeaders,           \* source headers (argument; Index state)
    purchaseRegisterHeaders, \* target headers (argument; Index state)
    suggestedMappings,       \* suggestColumnMappings: its mappings object
    mappings,                \* ColumnMapping state: the rows of the editor
    columnMappings,          \* Index state: Record<string, string>
    keyFields,               \* Index state: string[]
    matchingThreshold,       \* Index state
    isProcessing,            \* Index state
    reconciliationResults,   \* Index state: null or a MatchResult
    timers,                  \* setTimeout callbacks not yet run, oldest first
    lastCall,                \* the shell's latest engine call: arguments, threw
    events                   \* number of user events the page has handled

exportVars == <<combinedData>>
suggestVars == <<gstr2bHeaders, purchaseRegisterHeaders, suggestedMappings>>
shellVars == <<mappings, columnMappings, keyFields, matchingThreshold,
               isProcessing, reconciliationResults, timers, lastCall,
               events>>

vars == <<gstr2bData, purchaseRegisterData, options, common, moreInGstr2b,
          lessInGstr2b, matchedPurchaseIndices, pc, i, exportVars,
          suggestVars, shellVars>>

(***************************************************************************)
(* Bounds of the model.                                                    *)
(***************************************************************************)
MaxSource == 2
MaxTarget == 2

(***************************************************************************)
(* Values and their JavaScript conversions.                                *)
(***************************************************************************)
Undefined == [t |-> "undefined", n |-> 0, s |-> <<>>]
Num(x) == [t |-> "number", n |-> x, s |-> <<>>]
Str(x) == [t |-> "string", n |-> 0, s |-> x]

Abs(x) == IF x < 0 THEN 0 - x ELSE x

Digit(d) == CASE d = 0 -> "0" [] d = 1 -> "1" [] d = 2 -> "2" [] d = 3 -> "3"
              [] d = 4 -> "4" [] d = 5 -> "5" [] d = 6 -> "6" [] d = 7 -> "7"
              [] d = 8 -> "8" [] d = 9 -> "9"

RECURSIVE NatDigits(_)
NatDigits(x) == IF x < 10 THEN <<Digit(x)>>
                ELSE Append(NatDigits(x \div 10), Digit(x % 10))

\* Number.prototype.toString for a number of hundredths: sign, integer
\* part, and the fraction without trailing zeros (100 -> "100",
\* 100.5 -> "100.5", 100.09 -> "100.09").
NumberToString(x) ==
    LET a == Abs(x)
        frac == a % 100
        fracStr == IF frac = 0 THEN <<>>
                   ELSE IF frac % 10 = 0 THEN <<".", Digit(frac \div 10)>>
                   ELSE <<".", Digit(frac \div 10), Digit(frac % 10)>>
    IN  (IF x < 0 THEN <<"-">> ELSE <<>>) \o NatDigits(a \div 100) \o fracStr

\* String(v)
StringOf(v) ==
    CASE v.t = "number" -> NumberToString(v.n)
      [] v.t = "string" -> v.s
      [] v.t = "undefined" -> <<"u", "n", "d", "e", "f", "i", "n", "e", "d">>

\* v?.toString() || ''
ToStringOrEmpty(v) == IF v.t = "undefined" THEN <<>> ELSE StringOf(v)

\* entry[field]
Get(entry, field) ==
    IF field \in DOMAIN entry.row THEN entry.row[field] ELSE Undefined


(***************************************************************************)
(* The fuse.js index, as performReconciliation configures and queries it:  *)
(* new Fuse(purchaseRegisterData, {includeScore, threshold, keys}) and     *)
(* fuse.search(searchPattern) with an object pattern, which fuse.js reads  *)
(* as the conjunction of one single-key query per property.                *)
(***************************************************************************)

\* The text fuse.js indexes for one record under one key: the record's own
\* property of that name, when it is a non-blank string or a number.
\* <<FALSE>> stands for "no text indexed".
IndexedText(entry, key) ==
    LET v == Get(entry, key)
    IN  IF v.t = "string" /\ v.s # <<>> THEN <<TRUE, v.s>>
        ELSE IF v.t = "number" THEN <<TRUE, NumberToString(v.n)>>
        ELSE <<FALSE>>

\* Number of pattern positions that the text does not reproduce, the
\* pattern laid over the start of the text.
Errors(pattern, text) ==
    Cardinality({k \in 1..Len(pattern) :
                    k > Len(text) \/ pattern[k] # text[k]})

\* The score of one pattern against one text (fuse.js BitapSearch): 0 for
\* identical strings, otherwise errors / pattern length and never below
\* 0.001; an empty pattern matches nothing but the identical text.
BitapScore(pattern, text) ==
    IF pattern = text THEN 0
    ELSE IF pattern = <<>> THEN 10000
    ELSE LET raw == (10000 * Errors(pattern, text)) \div Len(pattern)
         IN  IF raw < 10 THEN 10 ELSE raw

\* 1 - matchingThreshold / 100
ScoreCeiling(threshold) == 10000 - 100 * threshold

\* keys: keyFields.map(field => field)
FuseKeys(keyFieldNames) == keyFieldNames

\* Whether the record at one key answers one single-key query: the key is
\* indexed for the record and its score is within the threshold option.
KeyMatches(entry, key, pattern, ceiling) ==
    LET t == IndexedText(entry, key)
    IN  t[1] /\ BitapScore(pattern, t[2]) <= ceiling

RECURSIVE WorstKeyScore(_, _, _)
WorstKeyScore(keys, entry, searchPattern) ==
    IF keys = <<>> THEN 0
    ELSE LET here == BitapScore(searchPattern[Head(keys)],
                                IndexedText(entry, Head(keys))[2])
             rest == WorstKeyScore(Tail(keys), entry, searchPattern)
         IN  IF here > rest THEN here ELSE rest

\* The score fuse.js reports for a selected record (computeScore): with one
\* key of one-word text it is the key's score, and Number.EPSILON in place
\* of 0.  With several keys fuse.js multiplies weighted powers; the model
\* keeps the worst key's score.
TotalScore(keys, entry, searchPattern) ==
    LET worst == WorstKeyScore(keys, entry, searchPattern)
    IN  IF worst = 0 THEN 1 ELSE worst

\* The records the query selects: every queried key is indexed for the
\* record and scores within the threshold.  A query with no key selects
\* nothing.
FuseCandidates(data, keys, ceiling, searchPattern) ==
    IF keys = <<>> THEN {}
    ELSE {[refIndex |-> k, score |-> TotalScore(keys, data[k], searchPattern)] :
             k \in {x \in 1..Len(data) :
                      \A q \in 1..Len(keys) :
                         KeyMatches(data[x], keys[q], searchPattern[keys[q]],
                                    ceiling)}}

\* fuse.js sorts by score and, for equal scores, by index.
SortsBefore(a, b) ==
    a.score < b.score \/ (a.score = b.score /\ a.refIndex < b.refIndex)

RECURSIVE SortResults(_)
SortResults(cands) ==
    IF cands = {} THEN <<>>
    ELSE LET first == CHOOSE c \in cands :
                         \A d \in cands \ {c} : SortsBefore(c, d)
         IN  <<first>> \o SortResults(cands \ {first})

\* fuse.search(searchPattern): the selected records, best first.
FuseSearch(data, keys, ceiling, searchPattern) ==
    SortResults(FuseCandidates(data, keys, ceiling, searchPattern))

(***************************************************************************)
(* performReconciliation, piece by piece.                                  *)
(***************************************************************************)

\* searchPattern[keyField] = gstr2bEntry[keyField]?.toString() || ''
SearchPattern(gstr2bEntry, keyFieldNames) ==
    [f \in {keyFieldNames[k] : k \in 1..Len(keyFieldNames)} |->
        ToStringOrEmpty(Get(gstr2bEntry, f))]

\* const results = fuse.search(searchPattern)
Results(gstr2bEntry, data, opts) ==
    FuseSearch(data, FuseKeys(opts.keyFields),
               ScoreCeiling(opts.matchingThreshold),
               SearchPattern(gstr2bEntry, opts.keyFields))

\* A faulty variant of IsMatch: any result is taken, its score unchecked.
IsMatchAnyResult(results, threshold) == Len(results) > 0

\* results.length > 0 && results[0].score !== undefined &&
\* results[0].score <= (1 - matchingThreshold / 100)
IsMatch(results, threshold) ==
    /\ Len(results) > 0
    /\ results[1].score <= ScoreCeiling(threshold)

\* A faulty variant of IndexOf: the object is never found (as for a copy).
IndexOfNotFound(data, item) == 0

\* purchaseRegisterData.indexOf(bestMatch): the first position holding
\* that very object, 0 when there is none.
IndexOf(data, item) ==
    IF \E k \in 1..Len(data) : data[k].ref = item.ref
    THEN CHOOSE k \in 1..Len(data) :
            /\ data[k].ref = item.ref
            /\ \A q \in 1..(k - 1) : data[q].ref # item.ref
    ELSE 0

\* A faulty variant of Includes: no field is recognised as a key field.
IncludesNever(keyFieldNames, field) == FALSE

\* keyFields.includes(gstr2bField)
Includes(keyFieldNames, field) ==
    \E k \in 1..Len(keyFieldNames) : keyFieldNames[k] = field

\* A faulty variant of ExceedsTolerance: >= in place of >.
ReachesTolerance(gstr2bNumber, prNumber) ==
    1000 * Abs(gstr2bNumber - prNumber) >= Abs(gstr2bNumber)

\* Math.abs(gstr2bValue - prValue) > Math.abs(gstr2bValue) * 0.001
ExceedsTolerance(gstr2bNumber, prNumber) ==
    1000 * Abs(gstr2bNumber - prNumber) > Abs(gstr2bNumber)

\* A faulty variant of ValuesMismatch: !== in place of comparing strings.
ValuesMismatchStrict(gstr2bValue, prValue) ==
    IF gstr2bValue.t = "number" /\ prValue.t = "number"
    THEN ExceedsTolerance(gstr2bValue.n, prValue.n)
    ELSE gstr2bValue # prValue

\* The two branches of the comparison of one mapped field.
ValuesMismatch(gstr2bValue, prValue) ==
    IF gstr2bValue.t = "number" /\ prValue.t = "number"
    THEN ExceedsTolerance(gstr2bValue.n, prValue.n)
    ELSE StringOf(gstr2bValue) # StringOf(prValue)

\* gstr2bValue = gstr2bEntry[gstr2bField]; prValue = bestMatch[prField]
PrValueOf(bestMatch, mapping) == Get(bestMatch, mapping.pr)

\* The mismatches one mapped field contributes: none or one.
FieldMismatches(gstr2bEntry, bestMatch, mapping, keyFieldNames) ==
    IF Includes(keyFieldNames, mapping.gstr2b) THEN <<>>
    ELSE IF ValuesMismatch(Get(gstr2bEntry, mapping.gstr2b),
                           PrValueOf(bestMatch, mapping))
    THEN <<[field |-> mapping.gstr2b,
            gstr2bValue |-> Get(gstr2bEntry, mapping.gstr2b),
            purchaseRegisterValue |-> PrValueOf(bestMatch, mapping)]>>
    ELSE <<>>

\* A faulty variant of Mismatches: the entries come out in reverse order.
RECURSIVE MismatchesReversed(_, _, _, _)
MismatchesReversed(gstr2bEntry, bestMatch, mappedFields, keyFieldNames) ==
    IF mappedFields = <<>> THEN <<>>
    ELSE MismatchesReversed(gstr2bEntry, bestMatch, Tail(mappedFields),
                            keyFieldNames)
         \o FieldMismatches(gstr2bEntry, bestMatch, Head(mappedFields),
                            keyFieldNames)

\* Object.entries(mappedFields).forEach(...)
RECURSIVE Mismatches(_, _, _, _)
Mismatches(gstr2bEntry, bestMatch, mappedFields, keyFieldNames) ==
    IF mappedFields = <<>> THEN <<>>
    ELSE FieldMismatches(gstr2bEntry, bestMatch, Head(mappedFields), keyFieldNames)
         \o Mismatches(gstr2bEntry, bestMatch, Tail(mappedFields), keyFieldNames)


(***************************************************************************)
(* The inputs the model runs the engine on.                                *)
(***************************************************************************)
A1 == <<"A", "1">>
A10 == <<"A", "1", "0">>

\* A row with up to two fields; a field whose value is undefined is absent.
Row(f1, v1, f2, v2) ==
    [f \in {x \in {f1, f2} : (IF x = f1 THEN v1 ELSE v2) # Undefined} |->
        IF f = f1 THEN v1 ELSE v2]

\* Field mappings (Record<string, string>, in Object.entries order): the
\* same names on both sides, the payload renamed, key and payload renamed.
MapSame ==
    <<[gstr2b |-> "invoice", pr |-> "invoice"],
      [gstr2b |-> "amount", pr |-> "amount"]>>
MapPayloadRenamed ==
    <<[gstr2b |-> "invoice", pr |-> "invoice"],
      [gstr2b |-> "amount", pr |-> "amt"]>>
MapRenamed ==
    <<[gstr2b |-> "invoice", pr |-> "inv_no"],
      [gstr2b |-> "amount", pr |-> "amt"]>>
Mappings == {MapSame, MapPayloadRenamed, MapRenamed}

KeyFieldChoices == {<<>>, <<"invoice">>, <<"amount">>}
Thresholds == {50, 90, 95, 100}
KeyValues == {Str(A1), Str(A10), Undefined}

PayloadValues ==
    {Undefined, Num(0), Num(1), Num(10000), Num(10009), Num(10010),
     Num(10011), Num(0 - 10000), Str(<<"1", "0", "0">>),
     Str(<<"1", "0", "0", ".", "0", "9">>), Str(<<"x">>),
     Str(<<"u", "n", "d", "e", "f", "i", "n", "e", "d">>), Str(<<>>)}

\* Datasets as tabular ingestion hands them over: one fresh object per row.
Dataset(keyName, keys, payloadName, payloads) ==
    [k \in 1..Len(keys) |->
        [ref |-> k, row |-> Row(keyName, keys[k], payloadName, payloads[k])]]

\* null, the value of reconciliationResults before the first run
Null == [null |-> TRUE]

\* The shell has not called performReconciliation yet.
NoCall == [called |-> FALSE]

\* The parts of the state a function that is running does not use keep the
\* values they have when the page is mounted (the useState initial values).
NotExported == combinedData = <<>>

NoHeaders ==
    /\ gstr2bHeaders = <<>>
    /\ purchaseRegisterHeaders = <<>>

NotSuggested == suggestedMappings = <<>>

ShellMounted ==
    /\ mappings = <<>>
    /\ columnMappings = <<>>
    /\ keyFields = <<>>
    /\ matchingThreshold = 90
    /\ isProcessing = FALSE
    /\ reconciliationResults = Null
    /\ timers = <<>>
    /\ lastCall = NoCall
    /\ events = 0

EngineNotCalled ==
    /\ options = [matchingThreshold |-> 90, keyFields |-> <<>>,
                  mappedFields |-> <<>>]
    /\ common = <<>>
    /\ moreInGstr2b = <<>>
    /\ lessInGstr2b = <<>>
    /\ matchedPurchaseIndices = {}
    /\ i = 1

Started ==
    /\ common = <<>>
    /\ moreInGstr2b = <<>>
    /\ lessInGstr2b = <<>>
    /\ matchedPurchaseIndices = {}
    /\ pc = "forEachGstr2b"
    /\ i = 1
    /\ NotExported
    /\ NoHeaders
    /\ NotSuggested
    /\ ShellMounted

\* Datasets of up to MaxSource and MaxTarget rows whose key values vary.
InitMatching ==
    \E m \in Mappings, kf \in KeyFieldChoices, th \in Thresholds,
       ns \in 0..MaxSource, nt \in 0..MaxTarget :
       \E sk \in [1..ns -> KeyValues], tk \in [1..nt -> KeyValues] :
          /\ options = [matchingThreshold |-> th, keyFields |-> kf,
                        mappedFields |-> m]
          /\ gstr2bData = Dataset("invoice", sk, "amount",
                                  [k \in 1..ns |-> Num(10000)])
          /\ purchaseRegisterData = Dataset(m[1].pr, tk, m[2].pr,
                                            [k \in 1..nt |-> Num(10000)])
          /\ Started

\* One row against one row with the same key, the payload values varying.
InitComparing ==
    \E m \in {MapSame, MapPayloadRenamed}, g \in PayloadValues,
       p \in PayloadValues :
          /\ options = [matchingThreshold |-> 90, keyFields |-> <<"invoice">>,
                        mappedFields |-> m]
          /\ gstr2bData = Dataset("invoice", <<Str(A1)>>, "amount", <<g>>)
          /\ purchaseRegisterData = Dataset("invoice", <<Str(A1)>>, m[2].pr,
                                            <<p>>)
          /\ Started

\* A row given by its field names and their values, undefined ones absent.
Record(names, values) ==
    [f \in {names[k] : k \in {j \in 1..Len(names) : values[j] # Undefined}} |->
        values[CHOOSE k \in 1..Len(names) : names[k] = f]]

Jan == <<"J", "a", "n">>
Feb == <<"F", "e", "b">>

\* Three mapped fields, in two iteration orders.
MapThree ==
    <<[gstr2b |-> "invoice", pr |-> "invoice"],
      [gstr2b |-> "amount", pr |-> "amt"],
      [gstr2b |-> "date", pr |-> "date"]>>
MapDateFirst ==
    <<[gstr2b |-> "date", pr |-> "date"],
      [gstr2b |-> "invoice", pr |-> "invoice"],
      [gstr2b |-> "amount", pr |-> "amt"]>>

\* One row against one row with the same key and two more mapped fields.
InitThreeFields ==
    \E m \in {MapThree, MapDateFirst},
       kf \in {<<"invoice">>, <<"invoice", "date">>},
       pa \in {Num(10000), Num(20000), Str(<<"x">>)},
       pd \in {Str(Jan), Str(Feb), Undefined} :
          /\ options = [matchingThreshold |-> 50, keyFields |-> kf,
                        mappedFields |-> m]
          /\ gstr2bData =
                <<[ref |-> 1,
                   row |-> Record(<<"invoice", "amount", "date">>,
                                  <<Str(A1), Num(10000), Str(Jan)>>)]>>
          /\ purchaseRegisterData =
                <<[ref |-> 1,
                   row |-> Record(<<"invoice", "amt", "date">>,
                                  <<Str(A1), pa, pd>>)]>>
          /\ Started

Init == InitMatching \/ InitComparing \/ InitThreeFields

(***************************************************************************)
(* performReconciliation as a state machine: one action per iteration of   *)
(* its two forEach loops.                                                  *)
(***************************************************************************)

\* A faulty variant of MatchFound: the paired record is also removed from
\* the target dataset.
MatchFoundConsuming ==
    /\ pc = "forEachGstr2b"
    /\ i <= Len(gstr2bData)
    /\ LET gstr2bEntry == gstr2bData[i]
           results == Results(gstr2bEntry, purchaseRegisterData, options)
       IN  /\ IsMatch(results, options.matchingThreshold)
           /\ LET bestMatch == purchaseRegisterData[results[1].refIndex]
                  bestMatchIndex == IndexOf(purchaseRegisterData, bestMatch)
              IN  /\ common' = Append(common,
                        [gstr2b |-> gstr2bEntry,
                         purchaseRegister |-> bestMatch,
                         mismatches |-> Mismatches(gstr2bEntry, bestMatch,
                                                   options.mappedFields,
                                                   options.keyFields)])
                  /\ matchedPurchaseIndices' =
                        matchedPurchaseIndices \cup {bestMatchIndex}
                  /\ purchaseRegisterData' =
                        SelectSeq(purchaseRegisterData,
                                  LAMBDA e : e.ref # bestMatch.ref)
    /\ i' = i + 1
    /\ UNCHANGED <<gstr2bData, options, moreInGstr2b, lessInGstr2b, pc>>
    /\ UNCHANGED <<exportVars, suggestVars, shellVars>>

\* The if branch of the first loop's body: a match is found.
MatchFound ==
    /\ pc = "forEachGstr2b"
    /\ i <= Len(gstr2bData)
    /\ LET gstr2bEntry == gstr2bData[i]
           results == Results(gstr2bEntry, purchaseRegisterData, options)
       IN  /\ IsMatch(results, options.matchingThreshold)
           /\ LET bestMatch == purchaseRegisterData[results[1].refIndex]
                  bestMatchIndex == IndexOf(purchaseRegisterData, bestMatch)
              IN  /\ common' = Append(common,
                        [gstr2b |-> gstr2bEntry,
                         purchaseRegister |-> bestMatch,
                         mismatches |-> Mismatches(gstr2bEntry, bestMatch,
                                                   options.mappedFields,
                                                   options.keyFields)])
                  /\ matchedPurchaseIndices' =
                        matchedPurchaseIndices \cup {bestMatchIndex}
    /\ i' = i + 1
    /\ UNCHANGED <<gstr2bData, purchaseRegisterData, options, moreInGstr2b,
                   lessInGstr2b, pc>>
    /\ UNCHANGED <<exportVars, suggestVars, shellVars>>

\* A faulty variant of NoMatchFound: the entry is not pushed.
NoMatchFoundDropped ==
    /\ pc = "forEachGstr2b"
    /\ i <= Len(gstr2bData)
    /\ ~IsMatch(Results(gstr2bData[i], purchaseRegisterData, options),
                options.matchingThreshold)
    /\ i' = i + 1
    /\ UNCHANGED <<gstr2bData, purchaseRegisterData, options, common,
                   moreInGstr2b, lessInGstr2b, matchedPurchaseIndices, pc>>
    /\ UNCHANGED <<exportVars, suggestVars, shellVars>>

\* The else branch of the first loop's body: no match found.
NoMatchFound ==
    /\ pc = "forEachGstr2b"
    /\ i <= Len(gstr2bData)
    /\ ~IsMatch(Results(gstr2bData[i], purchaseRegisterData, options),
                options.matchingThreshold)
    /\ moreInGstr2b' = Append(moreInGstr2b, gstr2bData[i])
    /\ i' = i + 1
    /\ UNCHANGED <<gstr2bData, purchaseRegisterData, options, common,
                   lessInGstr2b, matchedPurchaseIndices, pc>>
    /\ UNCHANGED <<exportVars, suggestVars, shellVars>>

\* The first loop is over; the second one starts.
Gstr2bLoopEnds ==
    /\ pc = "forEachGstr2b"
    /\ i > Len(gstr2bData)
    /\ pc' = "forEachPurchase"
    /\ i' = 1
    /\ UNCHANGED <<gstr2bData, purchaseRegisterData, options, common,
                   moreInGstr2b, lessInGstr2b, matchedPurchaseIndices>>
    /\ UNCHANGED <<exportVars, suggestVars, shellVars>>

\* A faulty variant of IsUnmatched: the negation is lost.
IsUnmatchedInverted(matched, index) == index \in matched

\* if (!matchedPurchaseIndices.has(index))
IsUnmatched(matched, index) == index \notin matched

\* The second loop's body, for an index that was not matched.
LessInGstr2bPushed ==
    /\ pc = "forEachPurchase"
    /\ i <= Len(purchaseRegisterData)
    /\ IsUnmatched(matchedPurchaseIndices, i)
    /\ lessInGstr2b' = Append(lessInGstr2b, purchaseRegisterData[i])
    /\ i' = i + 1
    /\ UNCHANGED <<gstr2bData, purchaseRegisterData, options, common,
                   moreInGstr2b, matchedPurchaseIndices, pc>>
    /\ UNCHANGED <<exportVars, suggestVars, shellVars>>

\* The second loop's body, for an index that was matched.
MatchedSkipped ==
    /\ pc = "forEachPurchase"
    /\ i <= Len(purchaseRegisterData)
    /\ ~IsUnmatched(matchedPurchaseIndices, i)
    /\ i' = i + 1
    /\ UNCHANGED <<gstr2bData, purchaseRegisterData, options, common,
                   moreInGstr2b, lessInGstr2b, matchedPurchaseIndices, pc>>
    /\ UNCHANGED <<exportVars, suggestVars, shellVars>>

\* return { common, moreInGstr2b, lessInGstr2b }
Return ==
    /\ pc = "forEachPurchase"
    /\ i > Len(purchaseRegisterData)
    /\ pc' = "done"
    /\ UNCHANGED <<gstr2bData, purchaseRegisterData, options, common,
                   moreInGstr2b, lessInGstr2b, matchedPurchaseIndices, i>>
    /\ UNCHANGED <<exportVars, suggestVars, shellVars>>

(***************************************************************************)
(* utils/excelUtils.ts: the rows generateCommonEntriesSheet builds from    *)
(* the common entries of a result.                                         *)
(***************************************************************************)

\* A field name as the characters of its string.
FieldText(field) ==
    CASE field = "invoice" -> <<"i", "n", "v", "o", "i", "c", "e">>
      [] field = "amount" -> <<"a", "m", "o", "u", "n", "t">>
      [] field = "amt" -> <<"a", "m", "t">>
      [] field = "inv_no" -> <<"i", "n", "v", "_", "n", "o">>
      [] field = "date" -> <<"d", "a", "t", "e">>
      [] field = "GSTIN" ->
            <<"G", "S", "T", "I", "N">>
      [] field = "IGST" ->
            <<"I", "G", "S", "T">>
      [] field = "CGST" ->
            <<"C", "G", "S", "T">>
      [] field = "Invoice Date" ->
            <<"I", "n", "v", "o", "i", "c", "e", " ", "D", "a", "t", "e">>
      [] field = "Date" ->
            <<"D", "a", "t", "e">>
      [] field = "Notes" ->
            <<"N", "o", "t", "e", "s">>

NoMismatchesText ==
    <<"N", "o", " ", "m", "i", "s", "m", "a", "t", "c", "h", "e", "s">>

\* The segment generateMismatchSummary renders: `${field} mismatch: ... `
SummarySegmentForDisplay(m) ==
    FieldText(m.field)
    \o <<" ", "m", "i", "s", "m", "a", "t", "c", "h", ":", " ">>
    \o StringOf(m.gstr2bValue)
    \o <<" ", "v", "s", " ">> \o StringOf(m.purchaseRegisterValue)

\* `${m.field}: ${m.gstr2bValue} vs ${m.purchaseRegisterValue}`
SummarySegment(m) ==
    FieldText(m.field) \o <<":", " ">> \o StringOf(m.gstr2bValue)
    \o <<" ", "v", "s", " ">> \o StringOf(m.purchaseRegisterValue)

\* Array.prototype.join
RECURSIVE Join(_, _)
Join(parts, separator) ==
    IF parts = <<>> THEN <<>>
    ELSE IF Len(parts) = 1 THEN parts[1]
    ELSE parts[1] \o separator \o Join(Tail(parts), separator)

\* entry.mismatches.map(...).join('; ') || 'No mismatches'
MismatchSummary(mismatches) ==
    LET joined == Join([k \in 1..Len(mismatches) |->
                           SummarySegment(mismatches[k])], <<";", " ">>)
    IN  IF joined = <<>> THEN NoMismatchesText ELSE joined

\* The row of one common entry: its columns are the source record's fields
\* under 'GSTR-2B: ', the target record's under 'PR: ', then the summary.
SheetRow(entry) ==
    [column \in ({"GSTR-2B: "} \X DOMAIN entry.gstr2b.row)
                 \cup ({"PR: "} \X DOMAIN entry.purchaseRegister.row)
                 \cup {<<"Mismatch Summary", "">>} |->
        IF column[1] = "GSTR-2B: " THEN entry.gstr2b.row[column[2]]
        ELSE IF column[1] = "PR: " THEN entry.purchaseRegister.row[column[2]]
        ELSE Str(MismatchSummary(entry.mismatches))]

\* const combinedData = commonEntries.map(entry => ...)
GenerateCommonEntriesSheet ==
    /\ pc = "done"
    /\ combinedData' = [a \in 1..Len(common) |-> SheetRow(common[a])]
    /\ pc' = "exported"
    /\ UNCHANGED <<gstr2bData, purchaseRegisterData, options, common,
                   moreInGstr2b, lessInGstr2b, matchedPurchaseIndices, i>>
    /\ UNCHANGED <<suggestVars, shellVars>>

Next ==
    \/ MatchFound
    \/ NoMatchFound
    \/ Gstr2bLoopEnds
    \/ LessInGstr2bPushed
    \/ MatchedSkipped
    \/ Return
    \/ GenerateCommonEntriesSheet

Spec == Init /\ [][Next]_vars

(***************************************************************************)
(* utils/reconciliationUtils.ts: suggestColumnMappings, one action per     *)
(* iteration of its forEach.  A header is a field name; FieldText gives    *)
(* the characters of its string.  A Record<string, string> is the          *)
(* sequence of its entries [gstr2b, pr] in Object.entries order.           *)
(***************************************************************************)
MaxHeaders == 2

\* String.prototype.toLowerCase, one character
LowerChar(c) ==
    CASE c = "A" -> "a"
      [] c = "B" -> "b"
      [] c = "C" -> "c"
      [] c = "D" -> "d"
      [] c = "E" -> "e"
      [] c = "F" -> "f"
      [] c = "G" -> "g"
      [] c = "H" -> "h"
      [] c = "I" -> "i"
      [] c = "J" -> "j"
      [] c = "K" -> "k"
      [] c = "L" -> "l"
      [] c = "M" -> "m"
      [] c = "N" -> "n"
      [] c = "O" -> "o"
      [] c = "P" -> "p"
      [] c = "Q" -> "q"
      [] c = "R" -> "r"
      [] c = "S" -> "s"
      [] c = "T" -> "t"
      [] c = "U" -> "u"
      [] c = "V" -> "v"
      [] c = "W" -> "w"
      [] c = "X" -> "x"
      [] c = "Y" -> "y"
      [] c = "Z" -> "z"
      [] OTHER -> c

\* String.prototype.toLowerCase
ToLowerCase(text) == [k \in 1..Len(text) |-> LowerChar(text[k])]

\* String.prototype.includes
StringIncludes(text, keyword) ==
    \E k \in 0..(Len(text) - Len(keyword)) :
       SubSeq(text, k + 1, k + Len(keyword)) = keyword

Kw_amount == <<"a", "m", "o", "u", "n", "t">>
Kw_bill == <<"b", "i", "l", "l">>
Kw_cgst == <<"c", "g", "s", "t">>
Kw_date == <<"d", "a", "t", "e">>
Kw_gst == <<"g", "s", "t">>
Kw_gstin == <<"g", "s", "t", "i", "n">>
Kw_igst == <<"i", "g", "s", "t">>
Kw_invoice == <<"i", "n", "v", "o", "i", "c", "e">>
Kw_party == <<"p", "a", "r", "t", "y">>
Kw_sgst == <<"s", "g", "s", "t">>
Kw_supplier == <<"s", "u", "p", "p", "l", "i", "e", "r">>
Kw_taxable == <<"t", "a", "x", "a", "b", "l", "e">>
Kw_total == <<"t", "o", "t", "a", "l">>
Kw_value == <<"v", "a", "l", "u", "e">>
Kw_vendor == <<"v", "e", "n", "d", "o", "r">>

commonKeywords ==
    <<
      [gstr |-> <<Kw_gstin, Kw_gst>>, pr |-> <<Kw_gstin, Kw_gst>>],
      [gstr |-> <<Kw_invoice, Kw_bill>>, pr |-> <<Kw_invoice, Kw_bill>>],
      [gstr |-> <<Kw_date>>, pr |-> <<Kw_date>>],
      [gstr |-> <<Kw_taxable, Kw_value>>, pr |-> <<Kw_taxable, Kw_value>>],
      [gstr |-> <<Kw_amount, Kw_total>>, pr |-> <<Kw_amount, Kw_total>>],
      [gstr |-> <<Kw_igst>>, pr |-> <<Kw_igst>>],
      [gstr |-> <<Kw_cgst>>, pr |-> <<Kw_cgst>>],
      [gstr |-> <<Kw_sgst>>, pr |-> <<Kw_sgst>>],
      [gstr |-> <<Kw_supplier, Kw_vendor>>, pr |-> <<Kw_supplier, Kw_vendor>>],
      [gstr |-> <<Kw_party>>, pr |-> <<Kw_party>>]
    >>

\* keywords.some(keyword => lowerHeader.includes(keyword.toLowerCase()))
SomeKeywordIn(keywords, lowerHeader) ==
    \E k \in 1..Len(keywords) :
       StringIncludes(lowerHeader, ToLowerCase(keywords[k]))

\* const matchesGstr = keywordSet.gstr.some(...)
MatchesGstr(keywordSet, gstrHeader) ==
    SomeKeywordIn(keywordSet.gstr, ToLowerCase(FieldText(gstrHeader)))

\* Array.prototype.find, as the index of the element found (0: undefined),
\* given the indices of the elements that satisfy the test
FindIndex(hits) ==
    IF hits = {} THEN 0 ELSE CHOOSE k \in hits : \A j \in hits : k <= j

\* The indices of the headers that contain a target keyword of the group.
HeadersWithKeyword(keywordSet, prHeaders) ==
    {k \in 1..Len(prHeaders) :
        SomeKeywordIn(keywordSet.pr, ToLowerCase(FieldText(prHeaders[k])))}

\* A faulty variant of MatchingPrHeader: the last header with a keyword.
MatchingPrHeaderLast(keywordSet, prHeaders) ==
    LET hits == HeadersWithKeyword(keywordSet, prHeaders)
    IN  IF hits = {} THEN 0 ELSE CHOOSE k \in hits : \A j \in hits : k >= j

\* const matchingPrHeader = purchaseRegisterHeaders.find(...): its index
MatchingPrHeader(keywordSet, prHeaders) ==
    FindIndex(HeadersWithKeyword(keywordSet, prHeaders))

\* if (matchingPrHeader): a header found and not the empty string
IsTruthy(prHeaders, index) ==
    index # 0 /\ FieldText(prHeaders[index]) # <<>>

\* for (const keywordSet of commonKeywords), from group g on: the header
\* assigned at the break, as a sequence of at most one element
RECURSIVE ScanGroups(_, _, _)
ScanGroups(gstrHeader, prHeaders, g) ==
    IF g > Len(commonKeywords) THEN <<>>
    ELSE IF /\ MatchesGstr(commonKeywords[g], gstrHeader)
            /\ IsTruthy(prHeaders,
                        MatchingPrHeader(commonKeywords[g], prHeaders))
    THEN <<prHeaders[MatchingPrHeader(commonKeywords[g], prHeaders)]>>
    ELSE ScanGroups(gstrHeader, prHeaders, g + 1)

\* object[key] = value: a new key goes last, an old one keeps its place
Assign(object, key, value) ==
    IF \E k \in 1..Len(object) : object[k].gstr2b = key
    THEN [k \in 1..Len(object) |->
            IF object[k].gstr2b = key THEN [gstr2b |-> key, pr |-> value]
            ELSE object[k]]
    ELSE Append(object, [gstr2b |-> key, pr |-> value])

\* The body of gstr2bHeaders.forEach applied to the mappings built so far.
SuggestFor(mappingsSoFar, gstrHeader, prHeaders) ==
    LET found == ScanGroups(gstrHeader, prHeaders, 1)
    IN  IF found = <<>> THEN mappingsSoFar
        ELSE Assign(mappingsSoFar, gstrHeader, found[1])

\* suggestColumnMappings as a function of its arguments
RECURSIVE SuggestFrom(_, _, _, _)
SuggestFrom(mappingsSoFar, gstrHeaders, prHeaders, k) ==
    IF k > Len(gstrHeaders) THEN mappingsSoFar
    ELSE SuggestFrom(SuggestFor(mappingsSoFar, gstrHeaders[k], prHeaders),
                     gstrHeaders, prHeaders, k + 1)

SuggestColumnMappings(gstrHeaders, prHeaders) ==
    SuggestFrom(<<>>, gstrHeaders, prHeaders, 1)

\* The header names the model draws header lists from.
HeaderNames ==
    {"GSTIN", "IGST", "CGST", "Invoice Date", "Date", "amount", "Notes"}

\* Header lists as ingestion declares them: distinct names, any order.
HeaderLists ==
    UNION {{h \in [1..n -> HeaderNames] :
              \A x, y \in 1..n : x # y => h[x] # h[y]} : n \in 0..MaxHeaders}

InitSuggest ==
    /\ gstr2bHeaders \in HeaderLists
    /\ purchaseRegisterHeaders \in HeaderLists
    /\ suggestedMappings = <<>>
    /\ pc = "forEachGstrHeader"
    /\ i = 1
    /\ gstr2bData = <<>>
    /\ purchaseRegisterData = <<>>
    /\ EngineNotCalled
    /\ NotExported
    /\ ShellMounted

\* One iteration of gstr2bHeaders.forEach
SuggestForHeader ==
    /\ pc = "forEachGstrHeader"
    /\ i <= Len(gstr2bHeaders)
    /\ suggestedMappings' =
          SuggestFor(suggestedMappings, gstr2bHeaders[i],
                     purchaseRegisterHeaders)
    /\ i' = i + 1
    /\ UNCHANGED <<gstr2bData, purchaseRegisterData, options, common,
                   moreInGstr2b, lessInGstr2b, matchedPurchaseIndices, pc>>
    /\ UNCHANGED <<exportVars, gstr2bHeaders, purchaseRegisterHeaders,
                   shellVars>>

\* return mappings
SuggestReturn ==
    /\ pc = "forEachGstrHeader"
    /\ i > Len(gstr2bHeaders)
    /\ pc' = "suggested"
    /\ UNCHANGED <<gstr2bData, purchaseRegisterData, options, common,
                   moreInGstr2b, lessInGstr2b, matchedPurchaseIndices, i>>
    /\ UNCHANGED <<exportVars, suggestVars, shellVars>>

NextSuggest ==
    \/ SuggestForHeader
    \/ SuggestReturn

SpecSuggest == InitSuggest /\ [][NextSuggest]_vars

(***************************************************************************)
(* performReconciliation as a function of its arguments (the shell calls   *)
(* it inside one timer callback).                                          *)
(***************************************************************************)
\* The containers after the first k iterations of gstr2bData.forEach.
RECURSIVE FirstLoop(_, _, _, _)
FirstLoop(source, target, opts, k) ==
    IF k = 0
    THEN [common |-> <<>>, moreInGstr2b |-> <<>>, matched |-> {}]
    ELSE LET before == FirstLoop(source, target, opts, k - 1)
             gstr2bEntry == source[k]
             results == Results(gstr2bEntry, target, opts)
         IN  IF IsMatch(results, opts.matchingThreshold)
             THEN LET bestMatch == target[results[1].refIndex]
                  IN  [common |-> Append(before.common,
                          [gstr2b |-> gstr2bEntry,
                           purchaseRegister |-> bestMatch,
                           mismatches |-> Mismatches(gstr2bEntry, bestMatch,
                                                     opts.mappedFields,
                                                     opts.keyFields)]),
                       moreInGstr2b |-> before.moreInGstr2b,
                       matched |-> before.matched
                                      \cup {IndexOf(target, bestMatch)}]
             ELSE [common |-> before.common,
                   moreInGstr2b |-> Append(before.moreInGstr2b, gstr2bEntry),
                   matched |-> before.matched]

\* purchaseRegisterData.forEach: the entries whose index was not matched.
SecondLoop(target, matched) ==
    LET unmatched == SelectSeq([k \in 1..Len(target) |-> k],
                               LAMBDA k : IsUnmatched(matched, k))
    IN  [j \in 1..Len(unmatched) |-> target[unmatched[j]]]

PerformReconciliation(source, target, opts) ==
    LET first == FirstLoop(source, target, opts, Len(source))
    IN  [common |-> first.common,
         moreInGstr2b |-> first.moreInGstr2b,
         lessInGstr2b |-> SecondLoop(target, first.matched)]

(***************************************************************************)
(* The interactive shell: the Index page (pages/Index.tsx), the mapping    *)
(* editor (components/ColumnMapping.tsx) and the Reconcile button          *)
(* (components/ReconciliationOptions.tsx).  One action per event handler,  *)
(* with the effects and parent callbacks it triggers; a handler runs on    *)
(* the state of the latest render.                                         *)
(***************************************************************************)
MaxRows == 2
MaxPending == 2
MaxEvents == 6

\* The page handles one more user event.
UserEvent ==
    /\ events < MaxEvents
    /\ events' = events + 1

\* An empty array's test: array.length > 0
HasLength(array) == Len(array) > 0

\* /gst.*no/: 'gst', then anything, then 'no'
MatchesGstNo(text) ==
    \E a \in 1..Len(text), b \in 1..Len(text) :
       /\ SubSeq(text, a, a + 2) = Kw_gst
       /\ b >= a + 3
       /\ SubSeq(text, b, b + 1) = <<"n", "o">>

\* isLikelyKeyField(fieldName)
IsLikelyKeyField(fieldName) ==
    \/ StringIncludes(ToLowerCase(fieldName), Kw_invoice)
    \/ StringIncludes(ToLowerCase(fieldName), Kw_bill)
    \/ StringIncludes(ToLowerCase(fieldName), Kw_gstin)
    \/ MatchesGstNo(ToLowerCase(fieldName))
    \/ ToLowerCase(fieldName) = Kw_gst

\* The empty selection of a row ('') and the test `mapping.gstr2b &&`
NoColumn == ""
IsChosen(column) == column # NoColumn

\* The mapping object updateParentComponents builds from the first k rows.
RECURSIVE MappingObject(_, _)
MappingObject(currentMappings, k) ==
    IF k = 0 THEN <<>>
    ELSE LET mapping == currentMappings[k]
             before == MappingObject(currentMappings, k - 1)
         IN  IF IsChosen(mapping.gstr2b) /\ IsChosen(mapping.pr)
             THEN Assign(before, mapping.gstr2b, mapping.pr)
             ELSE before

\* currentMappings.filter(m => m.isKey && m.gstr2b).map(m => m.gstr2b)
KeyFieldsOf(currentMappings) ==
    LET keyRows == SelectSeq(currentMappings,
                             LAMBDA mapping : /\ mapping.isKey
                                              /\ IsChosen(mapping.gstr2b))
    IN  [k \in 1..Len(keyRows) |-> keyRows[k].gstr2b]

\* updateParentComponents: onMappingChange and onKeyFieldsChange
UpdateParentComponents(currentMappings) ==
    /\ columnMappings' = MappingObject(currentMappings, Len(currentMappings))
    /\ keyFields' = KeyFieldsOf(currentMappings)

\* The rows the auto-suggest effect builds from the two header lists.
MappingsArray(gstrHeaders, prHeaders) ==
    LET suggested == SuggestColumnMappings(gstrHeaders, prHeaders)
        rows == [k \in 1..Len(suggested) |->
                    [gstr2b |-> suggested[k].gstr2b,
                     pr |-> suggested[k].pr,
                     isKey |-> IsLikelyKeyField(
                                  ToLowerCase(FieldText(suggested[k].gstr2b)))]]
        possibleKeyField ==
           FindIndex({k \in 1..Len(gstrHeaders) :
                        IsLikelyKeyField(ToLowerCase(FieldText(gstrHeaders[k])))})
        matchingPrField ==
           IF possibleKeyField = 0 THEN 0
           ELSE FindIndex({k \in 1..Len(prHeaders) :
                   StringIncludes(
                      ToLowerCase(FieldText(prHeaders[k])),
                      ToLowerCase(FieldText(gstrHeaders[possibleKeyField])))})
    IN  IF \E k \in 1..Len(rows) : rows[k].isKey THEN rows
        ELSE IF /\ IsTruthy(gstrHeaders, possibleKeyField)
                /\ IsTruthy(prHeaders, matchingPrField)
        THEN Append(rows, [gstr2b |-> gstrHeaders[possibleKeyField],
                           pr |-> prHeaders[matchingPrField],
                           isKey |-> TRUE])
        ELSE rows

\* useEffect(..., [gstr2bHeaders, purchaseRegisterHeaders]) after a render
\* in which one of the header lists is a new array.
AutoSuggest(gstrHeaders, prHeaders) ==
    IF HasLength(gstrHeaders) /\ HasLength(prHeaders)
    THEN LET mappingsArray == MappingsArray(gstrHeaders, prHeaders)
         IN  /\ mappings' = mappingsArray
             /\ UpdateParentComponents(mappingsArray)
    ELSE UNCHANGED <<mappings, columnMappings, keyFields>>

\* The files a user can drop: FileUpload hands over sheet_to_json's rows
\* and the keys of the first row; an empty sheet gives no rows, no headers.
EmptyFile == [data |-> <<>>, headers |-> <<>>]
Gstr2bFiles ==
    {EmptyFile,
     [data |-> <<[ref |-> 1,
                  row |-> Record(<<"invoice", "amount">>,
                                 <<Str(A1), Num(10000)>>)]>>,
      headers |-> <<"invoice", "amount">>]}
PurchaseRegisterFiles ==
    {EmptyFile,
     [data |-> <<[ref |-> 1,
                  row |-> Record(<<"invoice", "amt">>,
                                 <<Str(A1), Num(20000)>>)]>>,
      headers |-> <<"invoice", "amt">>]}

\* The positions the threshold slider is moved to.
SliderValues == {50, 90, 100}

engineVars == <<options, common, moreInGstr2b, lessInGstr2b,
                matchedPurchaseIndices, pc, i>>

InitShell ==
    /\ gstr2bData = <<>>
    /\ purchaseRegisterData = <<>>
    /\ NoHeaders
    /\ ShellMounted
    /\ EngineNotCalled
    /\ pc = "mounted"
    /\ NotExported
    /\ NotSuggested

\* handleGstr2bFileLoaded, then the auto-suggest effect
HandleGstr2bFileLoaded ==
    \E file \in Gstr2bFiles :
       /\ UserEvent
       /\ gstr2bData' = file.data
       /\ gstr2bHeaders' = file.headers
       /\ AutoSuggest(file.headers, purchaseRegisterHeaders)
       /\ UNCHANGED <<purchaseRegisterData, purchaseRegisterHeaders,
                      matchingThreshold, isProcessing, reconciliationResults,
                      timers, lastCall>>
       /\ UNCHANGED <<engineVars, exportVars, suggestedMappings>>

\* handlePurchaseRegisterFileLoaded, then the auto-suggest effect
HandlePurchaseRegisterFileLoaded ==
    \E file \in PurchaseRegisterFiles :
       /\ UserEvent
       /\ purchaseRegisterData' = file.data
       /\ purchaseRegisterHeaders' = file.headers
       /\ AutoSuggest(gstr2bHeaders, file.headers)
       /\ UNCHANGED <<gstr2bData, gstr2bHeaders, matchingThreshold,
                      isProcessing, reconciliationResults, timers, lastCall>>
       /\ UNCHANGED <<engineVars, exportVars, suggestedMappings>>

\* addMapping: the parent is not notified
AddMapping ==
    /\ UserEvent
    /\ Len(mappings) < MaxRows
    /\ mappings' = Append(mappings,
                          [gstr2b |-> NoColumn, pr |-> NoColumn,
                           isKey |-> FALSE])
    /\ UNCHANGED <<gstr2bData, purchaseRegisterData, gstr2bHeaders,
                   purchaseRegisterHeaders, columnMappings, keyFields,
                   matchingThreshold, isProcessing, reconciliationResults,
                   timers, lastCall>>
    /\ UNCHANGED <<engineVars, exportVars, suggestedMappings>>

\* removeMapping(index)
RemoveMapping ==
    \E index \in 1..Len(mappings) :
       LET newMappings == [k \in 1..(Len(mappings) - 1) |->
                              IF k < index THEN mappings[k]
                              ELSE mappings[k + 1]]
       IN  /\ UserEvent
           /\ mappings' = newMappings
           /\ UpdateParentComponents(newMappings)
           /\ UNCHANGED <<gstr2bData, purchaseRegisterData, gstr2bHeaders,
                          purchaseRegisterHeaders, matchingThreshold,
                          isProcessing, reconciliationResults, timers,
                          lastCall>>
           /\ UNCHANGED <<engineVars, exportVars, suggestedMappings>>

\* The values the controls of a row offer for one of its fields.
ValuesOffered(mapping, field) ==
    CASE field = "gstr2b" ->
            {gstr2bHeaders[k] : k \in 1..Len(gstr2bHeaders)}
      [] field = "pr" ->
            {purchaseRegisterHeaders[k] :
                k \in 1..Len(purchaseRegisterHeaders)}
      [] field = "isKey" -> {~mapping.isKey}

\* updateMapping(index, field, value)
UpdateMapping ==
    \E index \in 1..Len(mappings), field \in {"gstr2b", "pr", "isKey"} :
       \E value \in ValuesOffered(mappings[index], field) :
          LET newMappings == [mappings EXCEPT ![index][field] = value]
          IN  /\ UserEvent
              /\ mappings' = newMappings
              /\ UpdateParentComponents(newMappings)
              /\ UNCHANGED <<gstr2bData, purchaseRegisterData, gstr2bHeaders,
                             purchaseRegisterHeaders, matchingThreshold,
                             isProcessing, reconciliationResults, timers,
                             lastCall>>
              /\ UNCHANGED <<engineVars, exportVars, suggestedMappings>>

\* A faulty variant of HandleThresholdChange: the scheduled callbacks read
\* the threshold through a reference the slider writes to.
HandleThresholdChangeReachingPending ==
    \E value \in SliderValues :
       /\ UserEvent
       /\ matchingThreshold' = value
       /\ timers' = [k \in 1..Len(timers) |->
                        [timers[k] EXCEPT !.matchingThreshold = value]]
       /\ UNCHANGED <<gstr2bData, purchaseRegisterData, gstr2bHeaders,
                      purchaseRegisterHeaders, mappings, columnMappings,
                      keyFields, isProcessing, reconciliationResults,
                      lastCall>>
       /\ UNCHANGED <<engineVars, exportVars, suggestedMappings>>

\* handleThresholdChange(values)
HandleThresholdChange ==
    \E value \in SliderValues :
       /\ UserEvent
       /\ matchingThreshold' = value
       /\ UNCHANGED <<gstr2bData, purchaseRegisterData, gstr2bHeaders,
                      purchaseRegisterHeaders, mappings, columnMappings,
                      keyFields, isProcessing, reconciliationResults, timers,
                      lastCall>>
       /\ UNCHANGED <<engineVars, exportVars, suggestedMappings>>

\* const canReconcile = ...
CanReconcile ==
    /\ HasLength(gstr2bData)
    /\ HasLength(purchaseRegisterData)
    /\ HasLength(keyFields)
    /\ HasLength(columnMappings)

\* disabled={isDisabled || keyFields.length === 0}
ButtonDisabled == ~CanReconcile \/ ~HasLength(keyFields)

\* What the callback handed to setTimeout closes over.
Closure ==
    [gstr2bData |-> gstr2bData,
     purchaseRegisterData |-> purchaseRegisterData,
     matchingThreshold |-> matchingThreshold,
     keyFields |-> keyFields,
     columnMappings |-> columnMappings]

\* A click on 'Reconcile Data': nothing if the button is disabled,
\* handleReconcile otherwise.
HandleReconcile ==
    /\ UserEvent
    /\ Len(timers) < MaxPending
    /\ IF ButtonDisabled
          THEN UNCHANGED <<isProcessing, timers>>
          ELSE IF ~HasLength(gstr2bData) \/ ~HasLength(purchaseRegisterData)
          THEN UNCHANGED <<isProcessing, timers>>
          ELSE IF ~HasLength(keyFields)
          THEN UNCHANGED <<isProcessing, timers>>
          ELSE /\ isProcessing' = TRUE
               /\ timers' = Append(timers, Closure)
    /\ UNCHANGED <<gstr2bData, purchaseRegisterData, gstr2bHeaders,
                   purchaseRegisterHeaders, mappings, columnMappings,
                   keyFields, matchingThreshold, reconciliationResults,
                   lastCall>>
    /\ UNCHANGED <<engineVars, exportVars, suggestedMappings>>

\* A faulty variant of CallArguments: the callback reads the state of the
\* page as it is when the timer fires.
CallArgumentsCurrent(closure) ==
    [called |-> TRUE,
     gstr2bData |-> gstr2bData,
     purchaseRegisterData |-> purchaseRegisterData,
     options |-> [matchingThreshold |-> matchingThreshold,
                  keyFields |-> keyFields,
                  mappedFields |-> columnMappings]]

\* performReconciliation(gstr2bData, purchaseRegisterData,
\*    { matchingThreshold, keyFields, mappedFields: columnMappings })
CallArguments(closure) ==
    [called |-> TRUE,
     gstr2bData |-> closure.gstr2bData,
     purchaseRegisterData |-> closure.purchaseRegisterData,
     options |-> [matchingThreshold |-> closure.matchingThreshold,
                  keyFields |-> closure.keyFields,
                  mappedFields |-> closure.columnMappings]]

\* The two ways the call inside `try` ends.  An exception comes out of the
\* engine's library calls or the runtime, so any run may end either way.
CallOutcomes == {"returns", "throws"}

\* The state after try/catch/finally: setReconciliationResults(results) is
\* reached on a return and skipped on a throw.
ResultsAfter(outcome, call) ==
    IF outcome = "returns"
    THEN PerformReconciliation(call.gstr2bData, call.purchaseRegisterData,
                               call.options)
    ELSE reconciliationResults

\* A faulty variant of TimerFires: setIsProcessing(false) sits at the end of
\* the try block instead of in finally.
TimerFiresWithoutFinally ==
    \E outcome \in CallOutcomes :
       /\ timers # <<>>
       /\ lastCall' = CallArguments(Head(timers))
                         @@ [threw |-> outcome = "throws"]
       /\ reconciliationResults' = ResultsAfter(outcome, lastCall')
       /\ isProcessing' = IF outcome = "returns" THEN FALSE ELSE isProcessing
       /\ timers' = Tail(timers)
       /\ UNCHANGED <<gstr2bData, purchaseRegisterData, gstr2bHeaders,
                      purchaseRegisterHeaders, mappings, columnMappings,
                      keyFields, matchingThreshold, events>>
       /\ UNCHANGED <<engineVars, exportVars, suggestedMappings>>

\* The oldest timer fires: the callback handed to setTimeout runs.
TimerFires ==
    \E outcome \in CallOutcomes :
       /\ timers # <<>>
       /\ lastCall' = CallArguments(Head(timers))
                         @@ [threw |-> outcome = "throws"]
       /\ reconciliationResults' = ResultsAfter(outcome, lastCall')
       /\ isProcessing' = FALSE
       /\ timers' = Tail(timers)
       /\ UNCHANGED <<gstr2bData, purchaseRegisterData, gstr2bHeaders,
                      purchaseRegisterHeaders, mappings, columnMappings,
                      keyFields, matchingThreshold, events>>
       /\ UNCHANGED <<engineVars, exportVars, suggestedMappings>>

NextShell ==
    \/ HandleGstr2bFileLoaded
    \/ HandlePurchaseRegisterFileLoaded
    \/ AddMapping
    \/ RemoveMapping
    \/ UpdateMapping
    \/ HandleThresholdChange
    \/ HandleReconcile
    \/ TimerFires

SpecShell == InitShell /\ [][NextShell]_vars

\* The browser runs every timer that is due: a scheduled callback is not
\* left waiting forever.
SpecShellFair == SpecShell /\ WF_vars(TimerFires)


(***************************************************************************)
(* Vocabulary of the properties.                                           *)
(***************************************************************************)
Done == pc = "done"

\* The source indices whose iteration of the first loop has run.
Processed ==
    IF pc = "forEachGstr2b" THEN 1..(i - 1) ELSE 1..Len(gstr2bData)

\* The entries of common whose subject is source record k, of
\* moreInGstr2b that are source record k, of common whose counterpart is
\* target record t, and of lessInGstr2b that are target record t.
PairsOfSource(k) ==
    {a \in 1..Len(common) : common[a].gstr2b.ref = gstr2bData[k].ref}
MoreOfSource(k) ==
    {a \in 1..Len(moreInGstr2b) : moreInGstr2b[a].ref = gstr2bData[k].ref}
PairsOfTarget(t) ==
    {a \in 1..Len(common) :
        common[a].purchaseRegister.ref = purchaseRegisterData[t].ref}
LessOfTarget(t) ==
    {a \in 1..Len(lessInGstr2b) :
        lessInGstr2b[a].ref = purchaseRegisterData[t].ref}

\* What the index answers for source record k.
ResultsOfSource(k) == Results(gstr2bData[k], purchaseRegisterData, options)

(***************************************************************************)
(* C1.  No target record is the counterpart (purchaseRegister) of more     *)
(* than one entry of common: matching is one-to-one on the target side.    *)
(***************************************************************************)
C1_TargetPairedAtMostOnce ==
    \A t \in 1..Len(purchaseRegisterData) : Cardinality(PairsOfTarget(t)) <= 1

(***************************************************************************)
(* C2.  When performReconciliation returns, the number of common pairs     *)
(* plus the number of lessInGstr2b records equals the number of target     *)
(* records.                                                                *)
(***************************************************************************)
C2_TargetCountsAddUp ==
    Done => Len(common) + Len(lessInGstr2b) = Len(purchaseRegisterData)

(***************************************************************************)
(* C3.  A target record is consumed by the first source record accepted    *)
(* against it: a later source record whose lowest-scoring candidate is a   *)
(* target already paired with an earlier source record is not paired and   *)
(* is placed in moreInGstr2b.                                              *)
(***************************************************************************)
C3_LaterSourceGoesToMore ==
    \A k \in Processed :
       LET r == ResultsOfSource(k)
       IN  (/\ Len(r) > 0
            /\ \E e \in 1..(k - 1) :
                  \E a \in PairsOfSource(e) :
                     common[a].purchaseRegister.ref =
                        purchaseRegisterData[r[1].refIndex].ref)
           => (PairsOfSource(k) = {} /\ MoreOfSource(k) # {})


(***************************************************************************)
(* C4.  The index is keyed on the target-field names the mapping gives     *)
(* the key fields: with key fields named differently on the two sides      *)
(* (invoice -> inv_no), one source record and one target record holding    *)
(* the same key value are paired into common and both leftover sets are    *)
(* empty.                                                                  *)
(***************************************************************************)
RenamedKeyScenario ==
    /\ options.mappedFields = MapRenamed
    /\ options.keyFields = <<"invoice">>
    /\ options.matchingThreshold = 90
    /\ Len(gstr2bData) = 1
    /\ Len(purchaseRegisterData) = 1
    /\ Get(gstr2bData[1], "invoice") = Str(A1)
    /\ Get(purchaseRegisterData[1], "inv_no") = Str(A1)

C4_RenamedKeysArePaired ==
    (Done /\ RenamedKeyScenario)
       => /\ Len(common) = 1
          /\ common[1].gstr2b.ref = gstr2bData[1].ref
          /\ common[1].purchaseRegister.ref = purchaseRegisterData[1].ref
          /\ moreInGstr2b = <<>>
          /\ lessInGstr2b = <<>>


(***************************************************************************)
(* C5.  Every source record appears exactly once in the output: as the     *)
(* gstr2b subject of exactly one common pair or as exactly one entry of    *)
(* moreInGstr2b, never both and never neither; hence on return             *)
(* |common| + |moreInGstr2b| = |source|.                                   *)
(***************************************************************************)
C5_SourceExactlyOnce ==
    /\ \A k \in 1..Len(gstr2bData) :
          Cardinality(PairsOfSource(k)) + Cardinality(MoreOfSource(k)) =
             (IF k \in Processed THEN 1 ELSE 0)
    /\ \A a \in 1..Len(common) :
          \E k \in 1..Len(gstr2bData) : common[a].gstr2b = gstr2bData[k]
    /\ \A a \in 1..Len(moreInGstr2b) :
          \E k \in 1..Len(gstr2bData) : moreInGstr2b[a] = gstr2bData[k]
    /\ Done => Len(common) + Len(moreInGstr2b) = Len(gstr2bData)

C5_Witness == Done /\ Len(common) >= 1 /\ Len(moreInGstr2b) >= 1

(***************************************************************************)
(* C6.  On return a target record is listed in lessInGstr2b if and only    *)
(* if it is not the counterpart of any common pair, and it is listed at    *)
(* most once.                                                              *)
(***************************************************************************)
C6_LessIffUnpaired ==
    Done =>
       /\ \A t \in 1..Len(purchaseRegisterData) :
             /\ (LessOfTarget(t) # {}) <=> (PairsOfTarget(t) = {})
             /\ Cardinality(LessOfTarget(t)) <= 1
       /\ \A a \in 1..Len(lessInGstr2b) :
             \E t \in 1..Len(purchaseRegisterData) :
                lessInGstr2b[a] = purchaseRegisterData[t]

C6_Witness ==
    /\ Done
    /\ \E t \in 1..Len(purchaseRegisterData) : PairsOfTarget(t) # {}
    /\ \E t \in 1..Len(purchaseRegisterData) : LessOfTarget(t) # {}

(***************************************************************************)
(* C7.  A source record is placed in common if and only if the index       *)
(* returns at least one candidate and the first candidate's score is       *)
(* <= 1 - threshold/100, and then it is paired with exactly that first     *)
(* candidate; otherwise it is placed in moreInGstr2b.  When the only       *)
(* source record is not accepted, every target record is in lessInGstr2b.  *)
(***************************************************************************)
AcceptedSource(k) ==
    LET r == ResultsOfSource(k)
    IN  Len(r) > 0 /\ r[1].score <= 10000 - 100 * options.matchingThreshold

C7_CommonIffFirstCandidateWithinCeiling ==
    /\ \A k \in Processed :
          IF AcceptedSource(k)
          THEN /\ MoreOfSource(k) = {}
               /\ PairsOfSource(k) # {}
               /\ \A a \in PairsOfSource(k) :
                     common[a].purchaseRegister =
                        purchaseRegisterData[ResultsOfSource(k)[1].refIndex]
          ELSE /\ PairsOfSource(k) = {}
               /\ MoreOfSource(k) # {}
    /\ (Done /\ Len(gstr2bData) = 1 /\ ~AcceptedSource(1))
          => \A t \in 1..Len(purchaseRegisterData) : LessOfTarget(t) # {}

\* The no-match scenario: at threshold 95 the only target record's key is
\* not similar enough to the only source record's key.
C7_Witness ==
    /\ Done
    /\ options.matchingThreshold = 95
    /\ options.keyFields = <<"invoice">>
    /\ Len(gstr2bData) = 1
    /\ Len(purchaseRegisterData) = 1
    /\ Get(gstr2bData[1], "invoice") = Str(A10)
    /\ Get(purchaseRegisterData[1], "invoice") = Str(A1)
    /\ moreInGstr2b = <<gstr2bData[1]>>
    /\ lessInGstr2b = <<purchaseRegisterData[1]>>

(***************************************************************************)
(* C8.  In every common pair no entry of mismatches has a field name that  *)
(* is a member of keyFields.                                               *)
(***************************************************************************)
C8_NoMismatchOnKeyField ==
    \A a \in 1..Len(common) :
       \A q \in 1..Len(common[a].mismatches) :
          \A kf \in 1..Len(options.keyFields) :
             common[a].mismatches[q].field # options.keyFields[kf]

\* A pair whose mapped key field differs between source and target.
C8_Witness ==
    \E a \in 1..Len(common) :
       \E q \in 1..Len(options.mappedFields) :
          LET m == options.mappedFields[q]
          IN  /\ \E kf \in 1..Len(options.keyFields) :
                    options.keyFields[kf] = m.gstr2b
              /\ StringOf(Get(common[a].gstr2b, m.gstr2b)) #
                    StringOf(Get(common[a].purchaseRegister, m.pr))

(***************************************************************************)
(* C9.  For a mapped non-key field whose source and target values are      *)
(* both numbers, a mismatch is recorded if and only if                     *)
(* |source - target| > |source| * 0.001: source 100 with target 100.09     *)
(* gives none and with target 100.11 gives one; source 0 with target 0     *)
(* gives none and with any non-zero target gives one.                      *)
(***************************************************************************)
NonKeyMapping(q) ==
    \A kf \in 1..Len(options.keyFields) :
       options.keyFields[kf] # options.mappedFields[q].gstr2b

\* Whether pair a records a mismatch for the field of mapping entry q.
Flagged(a, q) ==
    \E x \in 1..Len(common[a].mismatches) :
       common[a].mismatches[x].field = options.mappedFields[q].gstr2b

SourceValue(a, q) == Get(common[a].gstr2b, options.mappedFields[q].gstr2b)
TargetValue(a, q) == Get(common[a].purchaseRegister, options.mappedFields[q].pr)

C9_NumericTolerance ==
    \A a \in 1..Len(common) :
       \A q \in 1..Len(options.mappedFields) :
          LET g == SourceValue(a, q)
              p == TargetValue(a, q)
          IN  (NonKeyMapping(q) /\ g.t = "number" /\ p.t = "number") =>
                 /\ Flagged(a, q) <=>
                       (1000 * (IF g.n >= p.n THEN g.n - p.n ELSE p.n - g.n)
                           > (IF g.n >= 0 THEN g.n ELSE 0 - g.n))
                 /\ (g.n = 10000 /\ p.n = 10009) => ~Flagged(a, q)
                 /\ (g.n = 10000 /\ p.n = 10011) => Flagged(a, q)
                 /\ (g.n = 0 /\ p.n = 0) => ~Flagged(a, q)
                 /\ (g.n = 0 /\ p.n # 0) => Flagged(a, q)

C9_Witness ==
    /\ Done
    /\ \E a \in 1..Len(common) :
          \E q \in 1..Len(options.mappedFields) :
             /\ NonKeyMapping(q)
             /\ SourceValue(a, q) = Num(0)
             /\ TargetValue(a, q) = Num(1)
             /\ Flagged(a, q)

(***************************************************************************)
(* C10.  For a mapped non-key field where at least one of the two values   *)
(* is not a number, a mismatch is recorded if and only if the stringified  *)
(* source value differs from the stringified target value: a number and a  *)
(* string with the same rendering do not mismatch, and a field missing on  *)
(* both sides does not mismatch.                                           *)
(***************************************************************************)
C10_StringComparison ==
    \A a \in 1..Len(common) :
       \A q \in 1..Len(options.mappedFields) :
          LET g == SourceValue(a, q)
              p == TargetValue(a, q)
          IN  (NonKeyMapping(q) /\ ~(g.t = "number" /\ p.t = "number")) =>
                 /\ Flagged(a, q) <=> (StringOf(g) # StringOf(p))
                 /\ (g = Num(10000) /\ p = Str(<<"1", "0", "0">>))
                       => ~Flagged(a, q)
                 /\ (g = Str(<<"1", "0", "0", ".", "0", "9">>)
                       /\ p = Num(10009)) => ~Flagged(a, q)
                 /\ (g = Num(10000) /\ p = Str(<<"x">>)) => Flagged(a, q)
                 /\ (g = Undefined /\ p = Undefined) => ~Flagged(a, q)
                 /\ (g = Undefined /\ p = Str(<<>>)) => Flagged(a, q)

C10_Witness ==
    /\ Done
    /\ \E a \in 1..Len(common) :
          \E q \in 1..Len(options.mappedFields) :
             /\ NonKeyMapping(q)
             /\ SourceValue(a, q) = Num(10000)
             /\ TargetValue(a, q) = Str(<<"1", "0", "0">>)
             /\ common[a].mismatches = <<>>

(***************************************************************************)
(* C12.  performReconciliation called with an empty keyFields list fails   *)
(* with a configuration error before any matching starts and returns no    *)
(* MatchResult: with keyFields empty the call never runs an iteration of   *)
(* its loops and never reaches its return statement.                       *)
(***************************************************************************)
C12_EmptyKeyFieldsFail ==
    options.keyFields = <<>> => (pc = "forEachGstr2b" /\ i = 1)

(***************************************************************************)
(* C15.  For every common pair, mismatches holds at most one entry per     *)
(* mapped non-key field, in the iteration order of mappedFields; a mapped  *)
(* non-key field has an entry if and only if the tolerance comparison      *)
(* flags it; each entry carries the source field name, the source          *)
(* record's value of that field and the target record's value of the       *)
(* mapped target field.  A fully matched pair has an empty sequence.       *)
(***************************************************************************)
\* The entry of mappedFields whose source field is the given one.
MappingPosition(field) ==
    CHOOSE q \in 1..Len(options.mappedFields) :
       options.mappedFields[q].gstr2b = field

\* The tolerance comparison of two values, restated.
Disagree(g, p) ==
    IF g.t = "number" /\ p.t = "number"
    THEN 1000 * (IF g.n >= p.n THEN g.n - p.n ELSE p.n - g.n)
            > (IF g.n >= 0 THEN g.n ELSE 0 - g.n)
    ELSE StringOf(g) # StringOf(p)

C15_MismatchesFollowMapping ==
    \A a \in 1..Len(common) :
       LET ms == common[a].mismatches
       IN  /\ \A x \in 1..Len(ms) :
                 \E q \in 1..Len(options.mappedFields) :
                    /\ NonKeyMapping(q)
                    /\ ms[x].field = options.mappedFields[q].gstr2b
                    /\ ms[x].gstr2bValue = SourceValue(a, q)
                    /\ ms[x].purchaseRegisterValue = TargetValue(a, q)
           /\ \A x, y \in 1..Len(ms) :
                 x < y => MappingPosition(ms[x].field)
                             < MappingPosition(ms[y].field)
           /\ \A q \in 1..Len(options.mappedFields) :
                 Flagged(a, q) <=>
                    (NonKeyMapping(q)
                     /\ Disagree(SourceValue(a, q), TargetValue(a, q)))
           /\ (\A q \in 1..Len(options.mappedFields) :
                  NonKeyMapping(q) =>
                     ~Disagree(SourceValue(a, q), TargetValue(a, q)))
                 => ms = <<>>

C15_Witness ==
    /\ Done
    /\ options.mappedFields = MapDateFirst
    /\ \E a \in 1..Len(common) :
          /\ Len(common[a].mismatches) = 2
          /\ common[a].mismatches[1].field = "date"
          /\ common[a].mismatches[2].field = "amount"
          /\ common[a].mismatches[2].purchaseRegisterValue = Num(20000)

(***************************************************************************)
(* C16.  With an empty source dataset performReconciliation returns        *)
(* common = [], moreInGstr2b = [] and lessInGstr2b equal to the whole      *)
(* target dataset in its original order; with an empty target dataset it   *)
(* returns common = [], lessInGstr2b = [] and moreInGstr2b equal to the    *)
(* whole source dataset in its original order.                             *)
(***************************************************************************)
C16_EmptyInputs ==
    Done =>
       /\ gstr2bData = <<>> =>
             /\ common = <<>>
             /\ moreInGstr2b = <<>>
             /\ lessInGstr2b = purchaseRegisterData
       /\ purchaseRegisterData = <<>> =>
             /\ common = <<>>
             /\ lessInGstr2b = <<>>
             /\ moreInGstr2b = gstr2bData

C16_Witness ==
    /\ Done
    /\ gstr2bData = <<>>
    /\ Len(purchaseRegisterData) >= 2
    /\ options.keyFields = <<"invoice">>
    /\ lessInGstr2b = purchaseRegisterData

(***************************************************************************)
(* C17.  performReconciliation leaves its inputs unchanged: no step of     *)
(* the call changes the source dataset, the target dataset, a record in    *)
(* them, keyFields or mappedFields, and the only state a step writes is    *)
(* the call's own result containers and loop position.                     *)
(***************************************************************************)
C17_InputsUnchanged ==
    [][(pc = "forEachGstr2b" \/ pc = "forEachPurchase") =>
          (/\ gstr2bData' = gstr2bData
           /\ purchaseRegisterData' = purchaseRegisterData
           /\ options' = options
           /\ UNCHANGED <<exportVars, suggestVars, shellVars>>)]_vars

C17_Witness ==
    /\ Done
    /\ Len(gstr2bData) = 2
    /\ Len(purchaseRegisterData) = 2
    /\ Len(common) = 1
    /\ Len(moreInGstr2b) = 1
    /\ Len(lessInGstr2b) = 1

(***************************************************************************)
(* C18.  For each common pair the exporter's 'Mismatch Summary' value is   *)
(* the sentinel 'No mismatches' if and only if the pair's mismatches       *)
(* sequence is empty; otherwise it is the segments                         *)
(* '<field>: <sourceValue> vs <targetValue>', one per mismatch in the      *)
(* order of the mismatches sequence, joined with '; '.                     *)
(***************************************************************************)
\* '<field>: <sourceValue> vs <targetValue>' for one mismatch.
ExpectedSegment(m) ==
    FieldText(m.field) \o <<":", " ">> \o StringOf(m.gstr2bValue)
    \o <<" ", "v", "s", " ">> \o StringOf(m.purchaseRegisterValue)

C18_MismatchSummary ==
    pc = "exported" =>
       /\ Len(combinedData) = Len(common)
       /\ \A a \in 1..Len(common) :
             LET ms == common[a].mismatches
                 cell == combinedData[a][<<"Mismatch Summary", "">>]
             IN  /\ cell.t = "string"
                 /\ cell.s = NoMismatchesText <=> ms = <<>>
                 /\ Len(ms) = 1 => cell.s = ExpectedSegment(ms[1])
                 /\ Len(ms) = 2 =>
                       cell.s = ExpectedSegment(ms[1]) \o <<";", " ">>
                                   \o ExpectedSegment(ms[2])
                 /\ Len(ms) <= 2

C18_Witness ==
    /\ pc = "exported"
    /\ \E a \in 1..Len(common) :
          /\ Len(common[a].mismatches) = 2
          /\ common[a].mismatches[1].gstr2bValue = Num(10000)
          /\ combinedData[a][<<"Mismatch Summary", "">>].s =
                <<"a", "m", "o", "u", "n", "t", ":", " ", "1", "0", "0",
                  " ", "v", "s", " ", "x", ";", " ", "d", "a", "t", "e",
                  ":", " ", "J", "a", "n", " ", "v", "s", " ",
                  "u", "n", "d", "e", "f", "i", "n", "e", "d">>

(***************************************************************************)
(* Vocabulary of the properties of suggestColumnMappings.                  *)
(***************************************************************************)
Suggested == pc = "suggested"

LowerText(header) == ToLowerCase(FieldText(header))

\* Source header s contains a source keyword of group g.
SourceHit(s, g) ==
    \E k \in 1..Len(commonKeywords[g].gstr) :
       StringIncludes(LowerText(s), commonKeywords[g].gstr[k])

\* The target header at index x contains a target keyword of group g.
TargetHit(x, g) ==
    \E k \in 1..Len(commonKeywords[g].pr) :
       StringIncludes(LowerText(purchaseRegisterHeaders[x]),
                      commonKeywords[g].pr[k])

GroupHasTarget(g) == \E x \in 1..Len(purchaseRegisterHeaders) : TargetHit(x, g)

\* The first target header, in the given order, that group g selects.
FirstTargetOf(g) ==
    purchaseRegisterHeaders[
        CHOOSE x \in 1..Len(purchaseRegisterHeaders) :
           TargetHit(x, g) /\ \A y \in 1..(x - 1) : ~TargetHit(y, g)]

Least(G) == CHOOSE g \in G : \A h \in G : g <= h

IsSuggestedKey(s) ==
    \E k \in 1..Len(suggestedMappings) : suggestedMappings[k].gstr2b = s

SuggestedFor(s) ==
    suggestedMappings[
        CHOOSE k \in 1..Len(suggestedMappings) :
           suggestedMappings[k].gstr2b = s].pr

SuggestionsWellFormed ==
    /\ \A k \in 1..Len(suggestedMappings) :
          /\ \E x \in 1..Len(gstr2bHeaders) :
                gstr2bHeaders[x] = suggestedMappings[k].gstr2b
          /\ \E x \in 1..Len(purchaseRegisterHeaders) :
                purchaseRegisterHeaders[x] = suggestedMappings[k].pr
    /\ \A j, k \in 1..Len(suggestedMappings) :
          j # k => suggestedMappings[j].gstr2b # suggestedMappings[k].gstr2b

(***************************************************************************)
(* C14 (as stated).  suggestColumnMappings maps a source header s to t     *)
(* exactly when t is the first target header containing a target keyword   *)
(* of the first group, in declaration order, whose source keywords s       *)
(* contains; scanning stops at that group, so a header whose first         *)
(* matching group selects no target is absent from the result.  Every      *)
(* value of the result is a target header.                                 *)
(***************************************************************************)
C14_FirstSourceGroupDecides ==
    Suggested =>
       /\ SuggestionsWellFormed
       /\ \A x \in 1..Len(gstr2bHeaders) :
             LET s == gstr2bHeaders[x]
                 G == {g \in 1..Len(commonKeywords) : SourceHit(s, g)}
             IN  IF G = {} THEN ~IsSuggestedKey(s)
                 ELSE IF ~GroupHasTarget(Least(G)) THEN ~IsSuggestedKey(s)
                 ELSE /\ IsSuggestedKey(s)
                      /\ SuggestedFor(s) = FirstTargetOf(Least(G))

(***************************************************************************)
(* C14 (amended).  suggestColumnMappings maps a source header s to t       *)
(* exactly when t is the first target header, in the given order,          *)
(* containing a target keyword of the first group, in declaration order,   *)
(* whose source keywords s contains and that selects some target header:   *)
(* a group that s matches but that selects no target is passed over and    *)
(* scanning goes on with the later groups.  A header for which no group    *)
(* does both is absent, and every value of the result is a target header.  *)
(***************************************************************************)
C14_FirstGroupWithTargetDecides ==
    Suggested =>
       /\ SuggestionsWellFormed
       /\ \A x \in 1..Len(gstr2bHeaders) :
             LET s == gstr2bHeaders[x]
                 G == {g \in 1..Len(commonKeywords) :
                         SourceHit(s, g) /\ GroupHasTarget(g)}
             IN  IF G = {} THEN ~IsSuggestedKey(s)
                 ELSE /\ IsSuggestedKey(s)
                      /\ SuggestedFor(s) = FirstTargetOf(Least(G))

C14_Witness ==
    /\ Suggested
    /\ Len(purchaseRegisterHeaders) = 2
    /\ \E k \in 1..Len(suggestedMappings) :
          suggestedMappings[k] = [gstr2b |-> "Invoice Date", pr |-> "Date"]
    /\ \E k \in 1..Len(suggestedMappings) :
          suggestedMappings[k] = [gstr2b |-> "amount", pr |-> "amount"]

(***************************************************************************)
(* C19.  For a source header that contains a tax-component keyword         *)
(* ('igst', 'cgst' or 'sgst'), whenever some target header contains that   *)
(* same keyword, the source header is mapped to a target header that       *)
(* contains that keyword, whatever other target headers are present and    *)
(* whatever their order.                                                   *)
(***************************************************************************)
C19_TaxComponentKeepsItsKeyword ==
    Suggested =>
       \A x \in 1..Len(gstr2bHeaders) :
          \A keyword \in {Kw_igst, Kw_cgst, Kw_sgst} :
             (/\ StringIncludes(LowerText(gstr2bHeaders[x]), keyword)
              /\ \E y \in 1..Len(purchaseRegisterHeaders) :
                    StringIncludes(LowerText(purchaseRegisterHeaders[y]),
                                   keyword))
             => /\ IsSuggestedKey(gstr2bHeaders[x])
                /\ StringIncludes(LowerText(SuggestedFor(gstr2bHeaders[x])),
                                  keyword)

(***************************************************************************)
(* C11.  Whenever the shell invokes performReconciliation, every element   *)
(* of the keyFields it passes is a key of the mappedFields it passes,      *)
(* after any sequence of add-row, update-row and remove-row operations in  *)
(* the mapping editor.                                                     *)
(***************************************************************************)
C11_KeyFieldsAreMapped ==
    lastCall.called =>
       \A k \in 1..Len(lastCall.options.keyFields) :
          \E q \in 1..Len(lastCall.options.mappedFields) :
             lastCall.options.mappedFields[q].gstr2b
                = lastCall.options.keyFields[k]

(***************************************************************************)
(* C13.  The shell never runs performReconciliation with an empty          *)
(* keyFields list or an empty source or target dataset: every run was      *)
(* scheduled by a Reconcile action taken in a state where all three were   *)
(* non-empty and runs on the values of that state; in any other state no   *)
(* step schedules a run or turns isProcessing on, and the stored results   *)
(* change only when a scheduled run executes.                              *)
(***************************************************************************)
C13_ReconcileGuarded ==
    /\ [](lastCall.called =>
             /\ lastCall.options.keyFields # <<>>
             /\ lastCall.gstr2bData # <<>>
             /\ lastCall.purchaseRegisterData # <<>>)
    /\ [][/\ Len(timers') > Len(timers) =>
               /\ keyFields # <<>>
               /\ gstr2bData # <<>>
               /\ purchaseRegisterData # <<>>
               /\ timers' = Append(timers,
                     [gstr2bData |-> gstr2bData,
                      purchaseRegisterData |-> purchaseRegisterData,
                      matchingThreshold |-> matchingThreshold,
                      keyFields |-> keyFields,
                      columnMappings |-> columnMappings])
          /\ (isProcessing' /\ ~isProcessing) => Len(timers') > Len(timers)
          /\ reconciliationResults' # reconciliationResults =>
               /\ timers # <<>>
               /\ timers' = Tail(timers)
               /\ lastCall'.called
               /\ lastCall'.gstr2bData = Head(timers).gstr2bData
               /\ lastCall'.purchaseRegisterData
                     = Head(timers).purchaseRegisterData
               /\ lastCall'.options.keyFields = Head(timers).keyFields
         ]_vars

C13_Witness ==
    /\ lastCall.called
    /\ reconciliationResults # Null
    /\ timers = <<>>
    /\ gstr2bData = <<>>
    /\ keyFields # <<>>
    /\ columnMappings # <<>>

(***************************************************************************)
(* C20.  For any interleaving of Reconcile clicks and timer firings,       *)
(* isProcessing is true for as long as at least one reconciliation         *)
(* scheduled by handleReconcile has not yet run: there is no state where   *)
(* isProcessing is false and a scheduled reconciliation is outstanding.    *)
(***************************************************************************)
C20_ProcessingWhilePending == timers # <<>> => isProcessing

(***************************************************************************)
(* C21.  A reconciliation started by handleReconcile is computed from the  *)
(* source data, target data, column mapping, key fields and threshold as   *)
(* they were at the Reconcile action: a scheduled run is queued with the   *)
(* values of that moment, no upload, mapping edit or threshold change      *)
(* alters a queued run, the run calls the engine on exactly the queued     *)
(* values and stores that call's result, and the stored result changes     *)
(* only when a queued run executes.                                        *)
(***************************************************************************)
RunOf(closure) ==
    PerformReconciliation(closure.gstr2bData, closure.purchaseRegisterData,
                          [matchingThreshold |-> closure.matchingThreshold,
                           keyFields |-> closure.keyFields,
                           mappedFields |-> closure.columnMappings])

C21_RunUsesInputsOfItsClick ==
    [][/\ \/ timers' = timers
          \/ /\ Len(timers') = Len(timers) + 1
             /\ timers' = Append(timers,
                   [gstr2bData |-> gstr2bData,
                    purchaseRegisterData |-> purchaseRegisterData,
                    matchingThreshold |-> matchingThreshold,
                    keyFields |-> keyFields,
                    columnMappings |-> columnMappings])
          \/ /\ timers # <<>>
             /\ timers' = Tail(timers)
             /\ lastCall'.called
             /\ lastCall'.gstr2bData = Head(timers).gstr2bData
             /\ lastCall'.purchaseRegisterData
                   = Head(timers).purchaseRegisterData
             /\ lastCall'.options.matchingThreshold
                   = Head(timers).matchingThreshold
             /\ lastCall'.options.keyFields = Head(timers).keyFields
             /\ lastCall'.options.mappedFields = Head(timers).columnMappings
             /\ ~lastCall'.threw
                   => reconciliationResults' = RunOf(Head(timers))
       /\ reconciliationResults' # reconciliationResults
             => /\ timers # <<>>
                /\ timers' = Tail(timers)
      ]_vars

\* Two runs were queued with a threshold change between the two clicks, and
\* the first has executed while the second waits: the stored result is the
\* one of the first click's threshold, not of the changed one.
C21_Witness ==
    /\ lastCall.called
    /\ ~lastCall.threw
    /\ ~isProcessing
    /\ Len(timers) = 1
    /\ timers[1].matchingThreshold # lastCall.options.matchingThreshold
    /\ matchingThreshold = timers[1].matchingThreshold
    /\ reconciliationResults
          = PerformReconciliation(lastCall.gstr2bData,
                                  lastCall.purchaseRegisterData,
                                  lastCall.options)
    /\ reconciliationResults # RunOf(timers[1])

(***************************************************************************)
(* C22.  In every reachable state of the Index shell in which              *)
(* reconciliationResults is non-null and no reconciliation is pending, the *)
(* stored result equals performReconciliation applied to the currently     *)
(* loaded source data, target data, column mapping, key fields and         *)
(* threshold: no upload, mapping edit or threshold change leaves a result  *)
(* on display that was computed from inputs that are no longer current.    *)
(***************************************************************************)
C22_StoredResultIsCurrent ==
    (reconciliationResults # Null /\ timers = <<>>)
       => reconciliationResults
             = PerformReconciliation(
                  gstr2bData, purchaseRegisterData,
                  [matchingThreshold |-> matchingThreshold,
                   keyFields |-> keyFields,
                   mappedFields |-> columnMappings])

(***************************************************************************)
(* C23.  After every Reconcile action that passes handleReconcile's        *)
(* guards, given that a scheduled timer eventually fires, isProcessing     *)
(* eventually becomes false again, whether performReconciliation returns   *)
(* or throws: the action turns isProcessing on, every execution of a       *)
(* scheduled run turns it off, and an execution that throws leaves         *)
(* reconciliationResults as it was before that run.                        *)
(***************************************************************************)
C23_ProcessingEnds ==
    /\ isProcessing ~> ~isProcessing
    /\ [][/\ Len(timers') > Len(timers) => isProcessing'
          /\ (timers # <<>> /\ timers' = Tail(timers))
                => /\ ~isProcessing'
                   /\ lastCall'.called
                   /\ lastCall'.threw
                         => reconciliationResults' = reconciliationResults
         ]_vars

\* A run threw after an earlier run had stored its result: the flag is off
\* and the stored result is still the earlier one, not the one the engine
\* gives on the arguments of the run that threw.
C23_Witness ==
    /\ lastCall.called
    /\ lastCall.threw
    /\ ~isProcessing
    /\ timers = <<>>
    /\ reconciliationResults # Null
    /\ reconciliationResults
          # PerformReconciliation(lastCall.gstr2bData,
                                  lastCall.purchaseRegisterData,
                                  lastCall.options)

=============================================================================
